---- MODULE Spec2Model ----
(***************************************************************************)
(* moderngl.Framebuffer (src/moderngl/framebuffer.py): the Python wrapper  *)
(* class and the internal object (mglo) every method delegates to.         *)
(*                                                                         *)
(* The wrapper's own code is translated from framebuffer.py.  The mglo     *)
(* object, the Context and the attachments are native / other modules of   *)
(* the package; their behaviour is taken from the specification and the    *)
(* definitions that model them are named mglo_* or marked as such.         *)
(*                                                                         *)
(* Python values: a sequence is a record [kind, items] with kind "tuple"   *)
(* or "list" (None has kind "None"); a float channel value is an           *)
(* integer level, 0 standing for 0.0.                                      *)
(***************************************************************************)
EXTENDS Integers, Sequences, FiniteSets, TLC

VARIABLES
    fields,     \* wrapper: f -> [_size, _samples, _color_attachments, _depth_attachment, _glo]
    ctx_fbo,    \* wrapper: Context.fbo, the context's active framebuffer
    mglo,       \* internal object of f: [size, viewport, scissor, color_mask, depth_mask, released]
    bound,      \* driver: the framebuffer currently bound as render target
    valid,      \* attachment (Texture / Renderbuffer) -> not released
    last        \* the last call: [op, fb, arg, called, sent, status, ret, effect]

vars == <<fields, ctx_fbo, mglo, bound, valid, last>>

----------------------------------------------------------------------------
(* Bounds and the values the operations are called with *)

MaxLen == 5         \* longest sequence passed as viewport / scissor / color
MaxCoord == 0       \* coordinates start at -1..MaxCoord
MaxChan == 1        \* channel levels are 0..MaxChan (0 is 0.0)
MaxArgs == 2        \* most arguments passed to the constructor

\* Python's None where a sequence may be passed, and a raised TypeError, as
\* values of the same shape as a sequence
None == [kind |-> "None", items |-> <<>>]
TypeError == [kind |-> "TypeError", items |-> <<>>]

FbIds == {"fbo1", "fbo2"}           \* the framebuffers of the context
AttIds == {"tex1", "tex2", "rbo"}   \* its textures and its renderbuffer
Coords == -1..MaxCoord
Chans == 0..MaxChan
Depths == {0, 1}                    \* depth levels (1 is the default 1.0)

\* c, c+1, ..., n items: no two positions hold the same value
Ramp(n, c) == [i \in 1..n |-> c + i - 1]

\* the tuples and lists of 0..n items that start at a value of S
PySeqs(S, n) ==
    {[kind |-> k, items |-> Ramp(m, c)] : k \in {"tuple", "list"}, m \in 0..n, c \in S}

PyList(items) == [kind |-> "list", items |-> items]

\* what the context's factory built: fbo1 over tex1 and the depth renderbuffer,
\* fbo2, a larger one, over tex2 and tex1 and without depth.
Created(f) ==
    IF f = "fbo1"
    THEN [_size |-> <<2, 3>>, _samples |-> 0,
          _color_attachments |-> <<"tex1">>, _depth_attachment |-> "rbo", _glo |-> 1]
    ELSE [_size |-> <<3, 4>>, _samples |-> 4,
          _color_attachments |-> <<"tex2", "tex1">>, _depth_attachment |-> "None", _glo |-> 2]

FullBox(size) == <<0, 0, size[1], size[2]>>

----------------------------------------------------------------------------
(* Python built-ins used by the wrapper *)

\* tuple(value): a tuple holding the items of any sequence; None is not iterable.
PyTuple(value) ==
    IF value.kind = "None" THEN TypeError
    ELSE [kind |-> "tuple", items |-> value.items]

\* a + b on tuples
PyConcat(a, b) == [kind |-> "tuple", items |-> a.items \o b.items]

----------------------------------------------------------------------------
(* The wrapper's methods, as what each hands to mglo (framebuffer.py) *)

\* Framebuffer(*args): __init__ takes self alone, so any argument fails the
\* call's binding with TypeError; with none the body runs and raises TypeError().
Framebuffer_init_raises_only_with_args(nargs) ==
    IF nargs # 0
    THEN [raised |-> "TypeError", instance |-> "None"]
    ELSE [raised |-> "None", instance |-> "Framebuffer"]

Framebuffer_init(nargs) ==
    IF nargs # 0
    THEN [raised |-> "TypeError", instance |-> "None"]
    ELSE [raised |-> "TypeError", instance |-> "None"]

\* viewport.setter: self.mglo.viewport = tuple(value)
viewport_setter_uncoerced(value) == value

viewport_setter_checks_length(value) ==
    IF value.kind # "None" /\ Len(value.items) # 4 THEN TypeError ELSE PyTuple(value)

viewport_setter(value) == PyTuple(value)

\* scissor.setter: None is handed on as None, anything else as tuple(value)
scissor_setter_none_as_empty(value) ==
    IF value.kind = "None" THEN [kind |-> "tuple", items |-> <<>>] ELSE PyTuple(value)

scissor_setter(value) ==
    IF value.kind = "None" THEN None ELSE PyTuple(value)

\* color_mask.setter / depth_mask.setter: the value is handed on as it is
color_mask_setter(value) == value

depth_mask_setter(value) == value

\* clear: the arguments of self.mglo.clear(red, green, blue, alpha, depth, viewport)
Zeros4 == [kind |-> "tuple", items |-> <<0, 0, 0, 0>>]

clear_args_pads_one(red, green, blue, alpha, depth, viewport, color) ==
    LET rgba == IF color.kind # "None"
                THEN PyConcat(PyTuple(color), [kind |-> "tuple", items |-> <<1, 1, 1, 1>>]).items
                ELSE <<red, green, blue, alpha>>
    IN [red |-> rgba[1], green |-> rgba[2], blue |-> rgba[3], alpha |-> rgba[4],
        depth |-> depth,
        viewport |-> IF viewport.kind # "None" THEN PyTuple(viewport) ELSE None]

clear_args_drops_viewport(red, green, blue, alpha, depth, viewport, color) ==
    LET rgba == IF color.kind # "None"
                THEN PyConcat(PyTuple(color), Zeros4).items
                ELSE <<red, green, blue, alpha>>
    IN [red |-> rgba[1], green |-> rgba[2], blue |-> rgba[3], alpha |-> rgba[4],
        depth |-> depth, viewport |-> None]

clear_args_positional_first(red, green, blue, alpha, depth, viewport, color) ==
    LET rgba == IF color.kind # "None" /\ <<red, green, blue, alpha>> = <<0, 0, 0, 0>>
                THEN PyConcat(PyTuple(color), Zeros4).items
                ELSE <<red, green, blue, alpha>>
    IN [red |-> rgba[1], green |-> rgba[2], blue |-> rgba[3], alpha |-> rgba[4],
        depth |-> depth,
        viewport |-> IF viewport.kind # "None" THEN PyTuple(viewport) ELSE None]

clear_args(red, green, blue, alpha, depth, viewport, color) ==
    LET rgba == IF color.kind # "None"
                THEN PyConcat(PyTuple(color), Zeros4).items
                ELSE <<red, green, blue, alpha>>
    IN [red |-> rgba[1], green |-> rgba[2], blue |-> rgba[3], alpha |-> rgba[4],
        depth |-> depth,
        viewport |-> IF viewport.kind # "None" THEN PyTuple(viewport) ELSE None]

\* read_into: a Buffer is replaced by its own internal object
read_into_buffer(buffer) ==
    IF buffer = "Buffer" THEN "Buffer.mglo" ELSE buffer

\* the read-only accessors
width(f) == fields[f]._size[1]
height(f) == fields[f]._size[2]
size(f) == fields[f]._size
samples(f) == fields[f]._samples
color_attachments(f) == fields[f]._color_attachments
depth_attachment(f) == fields[f]._depth_attachment
glo(f) == fields[f]._glo

----------------------------------------------------------------------------
(* The internal object (mglo), the driver behind it, and the attachments *)

\* mglo.viewport = t: a 4-tuple replaces the viewport, any other length is refused
mglo_set_viewport(m, t) ==
    IF Len(t.items) = 4
    THEN [status |-> "ok", m |-> [m EXCEPT !.viewport = t.items]]
    ELSE [status |-> "Error", m |-> m]

\* mglo.scissor = t: None restores the full-size box
mglo_set_scissor(m, t) ==
    IF t.kind = "None"
    THEN [status |-> "ok", m |-> [m EXCEPT !.scissor = FullBox(m.size)]]
    ELSE IF Len(t.items) = 4
         THEN [status |-> "ok", m |-> [m EXCEPT !.scissor = t.items]]
         ELSE [status |-> "Error", m |-> m]

\* mglo.viewport / mglo.scissor read back as tuples
mglo_get_viewport(m) == [kind |-> "tuple", items |-> m.viewport]

mglo_get_scissor(m) == [kind |-> "tuple", items |-> m.scissor]

NoEffect == [region |-> <<>>, rgba |-> <<>>, depth |-> 0]

\* mglo.clear(red, green, blue, alpha, depth, viewport): the region cleared
mglo_clear(m, a) ==
    LET paint(box) == [status |-> "ok",
                       effect |-> [region |-> box,
                                   rgba |-> <<a.red, a.green, a.blue, a.alpha>>,
                                   depth |-> a.depth]]
    IN IF a.viewport.kind = "None" THEN paint(m.scissor)
       ELSE IF Len(a.viewport.items) = 4 THEN paint(a.viewport.items)
       ELSE IF Len(a.viewport.items) = 2
            THEN paint(<<0, 0, a.viewport.items[1], a.viewport.items[2]>>)
       ELSE [status |-> "Error", effect |-> NoEffect]

\* mglo.read(..., attachment, ...): the color attachment must exist
mglo_read(f, attachment) ==
    IF attachment < Len(Created(f)._color_attachments) THEN "ok" ELSE "Error"

\* the wrapper's viewport / scissor getters: return self.mglo.viewport / .scissor
get_viewport(f) == mglo_get_viewport(mglo[f])

get_scissor(f) == mglo_get_scissor(mglo[f])

\* a call on a released handle is undefined: it raises, or goes through
Outcomes(f) == IF mglo[f].released THEN {TRUE, FALSE} ELSE {TRUE}

Attached(f) ==
    {fields[f]._color_attachments[i] : i \in 1..Len(fields[f]._color_attachments)}
        \cup ({fields[f]._depth_attachment} \ {"None"})

----------------------------------------------------------------------------
(* The state after the context built its framebuffers *)

Idle == [op |-> "none", fb |-> "None", arg |-> None, called |-> FALSE, sent |-> None,
         status |-> "ok", ret |-> None, effect |-> NoEffect]

Init ==
    /\ fields = [f \in FbIds |-> Created(f)]
    /\ mglo = [f \in FbIds |->
                  [size |-> Created(f)._size,
                   viewport |-> FullBox(Created(f)._size),
                   scissor |-> FullBox(Created(f)._size),
                   color_mask |-> TRUE, depth_mask |-> TRUE, released |-> FALSE]]
    /\ ctx_fbo = "fbo1"
    /\ bound = "fbo1"
    /\ valid = [a \in AttIds |-> TRUE]
    /\ last = Idle

----------------------------------------------------------------------------
(* The operations *)

\* Framebuffer(*args), called directly
Construct(nargs) ==
    LET r == Framebuffer_init(nargs)
    IN /\ last' = [Idle EXCEPT !.op = "__init__", !.arg = nargs,
                               !.status = r.raised, !.ret = r.instance]
       /\ UNCHANGED <<fields, ctx_fbo, mglo, bound, valid>>

\* fbo.viewport = value
SetViewport_resizes(f, value) ==
    LET t == viewport_setter(value)
    IN IF t.kind = "TypeError"
       THEN /\ last' = [Idle EXCEPT !.op = "set_viewport", !.fb = f, !.arg = value,
                                    !.status = "TypeError"]
            /\ UNCHANGED <<fields, ctx_fbo, mglo, bound, valid>>
       ELSE \E live \in Outcomes(f) :
            LET r == IF live THEN mglo_set_viewport(mglo[f], t)
                     ELSE [status |-> "Error", m |-> mglo[f]]
            IN /\ mglo' = [mglo EXCEPT ![f] = r.m]
               /\ fields' = IF r.status = "ok"
                            THEN [fields EXCEPT ![f]._size = <<t.items[3], t.items[4]>>]
                            ELSE fields
               /\ last' = [Idle EXCEPT !.op = "set_viewport", !.fb = f, !.arg = value,
                                       !.called = TRUE, !.sent = t, !.status = r.status]
               /\ UNCHANGED <<ctx_fbo, bound, valid>>

SetViewport(f, value) ==
    LET t == viewport_setter(value)
    IN IF t.kind = "TypeError"
       THEN /\ last' = [Idle EXCEPT !.op = "set_viewport", !.fb = f, !.arg = value,
                                    !.status = "TypeError"]
            /\ UNCHANGED <<fields, ctx_fbo, mglo, bound, valid>>
       ELSE \E live \in Outcomes(f) :
            LET r == IF live THEN mglo_set_viewport(mglo[f], t)
                     ELSE [status |-> "Error", m |-> mglo[f]]
            IN /\ mglo' = [mglo EXCEPT ![f] = r.m]
               /\ last' = [Idle EXCEPT !.op = "set_viewport", !.fb = f, !.arg = value,
                                       !.called = TRUE, !.sent = t, !.status = r.status]
               /\ UNCHANGED <<fields, ctx_fbo, bound, valid>>

\* fbo.scissor = value
SetScissor(f, value) ==
    LET t == scissor_setter(value)
    IN \E live \in Outcomes(f) :
       LET r == IF live THEN mglo_set_scissor(mglo[f], t)
                ELSE [status |-> "Error", m |-> mglo[f]]
       IN /\ mglo' = [mglo EXCEPT ![f] = r.m]
          /\ last' = [Idle EXCEPT !.op = "set_scissor", !.fb = f, !.arg = value,
                                  !.called = TRUE, !.sent = t, !.status = r.status]
          /\ UNCHANGED <<fields, ctx_fbo, bound, valid>>

\* fbo.color_mask = value
SetColorMask(f, value) ==
    \E live \in Outcomes(f) :
       /\ mglo' = IF live THEN [mglo EXCEPT ![f].color_mask = color_mask_setter(value)]
                  ELSE mglo
       /\ last' = [Idle EXCEPT !.op = "set_color_mask", !.fb = f, !.called = TRUE,
                               !.status = IF live THEN "ok" ELSE "Error"]
       /\ UNCHANGED <<fields, ctx_fbo, bound, valid>>

\* fbo.depth_mask = value
SetDepthMask(f, value) ==
    \E live \in Outcomes(f) :
       /\ mglo' = IF live THEN [mglo EXCEPT ![f].depth_mask = depth_mask_setter(value)]
                  ELSE mglo
       /\ last' = [Idle EXCEPT !.op = "set_depth_mask", !.fb = f, !.called = TRUE,
                               !.status = IF live THEN "ok" ELSE "Error"]
       /\ UNCHANGED <<fields, ctx_fbo, bound, valid>>

\* fbo.clear(red, green, blue, alpha, depth, viewport=..., color=...)
Clear(f, red, green, blue, alpha, depth, viewport, color) ==
    LET a == clear_args(red, green, blue, alpha, depth, viewport, color)
    IN \E live \in Outcomes(f) :
       LET r == IF live THEN mglo_clear(mglo[f], a)
                ELSE [status |-> "Error", effect |-> NoEffect]
       IN /\ last' = [Idle EXCEPT !.op = "clear", !.fb = f,
                                  !.arg = [red |-> red, green |-> green, blue |-> blue,
                                           alpha |-> alpha, depth |-> depth,
                                           viewport |-> viewport, color |-> color],
                                  !.called = TRUE, !.sent = a,
                                  !.status = r.status, !.effect = r.effect]
          /\ UNCHANGED <<fields, ctx_fbo, mglo, bound, valid>>

\* fbo.use()
Use_binds_only(f) ==
    \E live \in Outcomes(f) :
       /\ ctx_fbo' = ctx_fbo
       /\ bound' = IF live THEN f ELSE bound
       /\ last' = [Idle EXCEPT !.op = "use", !.fb = f, !.called = TRUE,
                               !.status = IF live THEN "ok" ELSE "Error"]
       /\ UNCHANGED <<fields, mglo, valid>>

Use(f) ==
    \E live \in Outcomes(f) :
       /\ ctx_fbo' = f
       /\ bound' = IF live THEN f ELSE bound
       /\ last' = [Idle EXCEPT !.op = "use", !.fb = f, !.called = TRUE,
                               !.status = IF live THEN "ok" ELSE "Error"]
       /\ UNCHANGED <<fields, mglo, valid>>

\* fbo.read(attachment=...)
Read(f, attachment) ==
    \E live \in Outcomes(f) :
       LET st == IF live THEN mglo_read(f, attachment) ELSE "Error"
       IN /\ last' = [Idle EXCEPT !.op = "read", !.fb = f, !.arg = attachment,
                                  !.called = TRUE, !.status = st,
                                  !.ret = IF st = "ok" THEN "bytes" ELSE "None"]
          /\ UNCHANGED <<fields, ctx_fbo, mglo, bound, valid>>

\* fbo.read_into(buffer, attachment=...)
ReadInto(f, buffer, attachment) ==
    \E live \in Outcomes(f) :
       LET st == IF live THEN mglo_read(f, attachment) ELSE "Error"
       IN /\ last' = [Idle EXCEPT !.op = "read_into", !.fb = f, !.arg = buffer,
                                  !.called = TRUE, !.sent = read_into_buffer(buffer),
                                  !.status = st]
          /\ UNCHANGED <<fields, ctx_fbo, mglo, bound, valid>>

\* fbo.release()
Release_with_attachments(f) ==
    \E live \in Outcomes(f) :
       /\ mglo' = [mglo EXCEPT ![f].released = TRUE]
       /\ valid' = [a \in AttIds |-> valid[a] /\ a \notin Attached(f)]
       /\ last' = [Idle EXCEPT !.op = "release", !.fb = f, !.called = TRUE,
                               !.status = IF live THEN "ok" ELSE "Error"]
       /\ UNCHANGED <<fields, ctx_fbo, bound>>

Release(f) ==
    \E live \in Outcomes(f) :
       /\ mglo' = [mglo EXCEPT ![f].released = TRUE]
       /\ last' = [Idle EXCEPT !.op = "release", !.fb = f, !.called = TRUE,
                               !.status = IF live THEN "ok" ELSE "Error"]
       /\ UNCHANGED <<fields, ctx_fbo, bound, valid>>

\* texture.release() / renderbuffer.release() of an attachment
ReleaseAttachment(a) ==
    /\ valid' = [valid EXCEPT ![a] = FALSE]
    /\ last' = [Idle EXCEPT !.op = "release_attachment", !.arg = a, !.called = TRUE]
    /\ UNCHANGED <<fields, ctx_fbo, mglo, bound>>

----------------------------------------------------------------------------
(* The values the operations are called with *)

\* None, and the tuples and lists of every length 0..MaxLen
BoxValues == {None} \cup PySeqs(Coords, MaxLen)

ColorValues == {None} \cup PySeqs(Chans, MaxLen)

\* red, green, blue, alpha: the defaults, or four given levels
Rgbas == {<<0, 0, 0, 0>>} \cup {Ramp(4, c) : c \in Chans}

\* one value of each shape, where the shape alone matters
FewBoxes ==
    {None, PyList(Ramp(4, MaxCoord)), PyList(Ramp(2, MaxCoord)), PyList(Ramp(MaxLen, MaxCoord))}

FewColors == {None, PyList(Ramp(3, MaxChan))}

----------------------------------------------------------------------------
(* Spec: construction, binding and release *)

Next ==
    \/ \E nargs \in 0..MaxArgs : Construct(nargs)
    \/ \E f \in FbIds : Use(f)
    \/ \E f \in FbIds : Release(f)
    \/ \E a \in AttIds : ReleaseAttachment(a)
    \/ \E f \in FbIds, attachment \in 0..2 : Read(f, attachment)
    \/ \E f \in FbIds, buffer \in {"Buffer", "bytearray"} : ReadInto(f, buffer, 0)

Spec == Init /\ [][Next]_vars

(* SpecProps: every operation on a live framebuffer, one value of each shape *)

NextProps ==
    \/ \E f \in FbIds, value \in FewBoxes : SetViewport(f, value)
    \/ \E f \in FbIds, value \in FewBoxes : SetScissor(f, value)
    \/ \E f \in FbIds, value \in BOOLEAN : SetColorMask(f, value)
    \/ \E f \in FbIds, value \in BOOLEAN : SetDepthMask(f, value)
    \/ \E f \in FbIds, rgba \in Rgbas, viewport \in FewBoxes, color \in FewColors :
          Clear(f, rgba[1], rgba[2], rgba[3], rgba[4], 1, viewport, color)
    \/ \E f \in FbIds : Use(f)
    \/ \E f \in FbIds, attachment \in 0..2 : Read(f, attachment)
    \/ \E f \in FbIds, buffer \in {"Buffer", "bytearray"} : ReadInto(f, buffer, 0)

SpecProps == Init /\ [][NextProps]_vars

(* SpecBox: viewport and scissor assignments of every length up to MaxLen *)

NextBox ==
    \/ \E f \in FbIds, value \in BoxValues : SetViewport(f, value)
    \/ \E f \in FbIds, value \in BoxValues : SetScissor(f, value)

SpecBox == Init /\ [][NextBox]_vars

(* SpecClear: clear with every color, and with every viewport *)

NextClear ==
    \/ \E f \in FbIds, rgba \in Rgbas, viewport \in {None, PyList(Ramp(2, MaxCoord))},
             color \in ColorValues :
          Clear(f, rgba[1], rgba[2], rgba[3], rgba[4], 1, viewport, color)
    \/ \E f \in FbIds, depth \in Depths, viewport \in BoxValues \ {None}, color \in FewColors :
          Clear(f, 0, 0, 0, 0, depth, viewport, color)
    \/ \E f \in FbIds, value \in {None, PyList(Ramp(4, MaxCoord))} : SetScissor(f, value)

SpecClear == Init /\ [][NextClear]_vars

----------------------------------------------------------------------------
(* Claims under Spec *)

\* C1: constructing a Framebuffer directly raises TypeError for every argument
\* list, the empty one included, and hands no instance to the caller.
C1_DirectConstructionFails ==
    last.op = "__init__" => (last.status = "TypeError" /\ last.ret = "None")

C1_Witness ==
    /\ last.op = "__init__"
    /\ last.arg = 0
    /\ last.status = "TypeError"

\* C2: when use() returns, the context's active framebuffer and the driver's
\* bound target are both the framebuffer it was called on; no other operation
\* changes either, and the two differ only after a use() that raised on a
\* released framebuffer.
C2_UseSetsActive ==
    /\ [](/\ (last.op = "use" /\ last.status = "ok") =>
                (ctx_fbo = last.fb /\ bound = last.fb)
          /\ (ctx_fbo # bound) => mglo[ctx_fbo].released)
    /\ [][last'.op # "use" => (ctx_fbo' = ctx_fbo /\ bound' = bound)]_vars

C2_Witness ==
    /\ last.op = "use"
    /\ last.status = "ok"
    /\ last.fb = "fbo2"
    /\ ctx_fbo = "fbo2"
    /\ bound = "fbo2"

\* C9: release() marks the framebuffer's own handle released and changes
\* neither the validity of any attachment nor any other framebuffer's handle.
C9_ReleaseKeepsAttachments ==
    [][last'.op = "release" =>
          /\ valid' = valid
          /\ mglo'[last'.fb].released
          /\ \A g \in FbIds \ {last'.fb} : mglo'[g] = mglo[g]]_vars

C9_Witness ==
    /\ last.op = "release"
    /\ last.status = "ok"
    /\ mglo[last.fb].released
    /\ \A a \in Attached(last.fb) : valid[a]

----------------------------------------------------------------------------
(* Claims under SpecProps *)

\* C8: whatever was assigned, cleared, bound or read, every read-only accessor
\* of every framebuffer reads what the factory stored, and size is
\* (width, height).
C8_FieldsFixed ==
    \A f \in FbIds :
       /\ size(f) = Created(f)._size
       /\ size(f) = <<width(f), height(f)>>
       /\ samples(f) = Created(f)._samples
       /\ color_attachments(f) = Created(f)._color_attachments
       /\ depth_attachment(f) = Created(f)._depth_attachment
       /\ glo(f) = Created(f)._glo

C8_Witness ==
    /\ last.op = "set_viewport"
    /\ last.status = "ok"
    /\ get_viewport(last.fb).items # FullBox(size(last.fb))
    /\ \E f \in FbIds : get_scissor(f).items # FullBox(size(f))
    /\ \E f \in FbIds : ~mglo[f].color_mask
    /\ ctx_fbo = "fbo2"

----------------------------------------------------------------------------
(* Claims under SpecBox *)

IsSeq(v) == v.kind \in {"tuple", "list"}

C4_ScissorNone ==
    (last.op = "set_scissor" /\ last.arg.kind = "None") =>
       /\ last.status = "ok"
       /\ get_scissor(last.fb).kind = "tuple"
       /\ get_scissor(last.fb).items = <<0, 0, width(last.fb), height(last.fb)>>

C4_Witness ==
    /\ last.op = "set_scissor"
    /\ last.arg.kind = "None"
    /\ last.fb = "fbo2"
    /\ get_scissor("fbo2").items = <<0, 0, 3, 4>>
    /\ get_scissor("fbo1").items # FullBox(size("fbo1"))

WrongLength ==
    /\ last.op \in {"set_viewport", "set_scissor"}
    /\ IsSeq(last.arg)
    /\ Len(last.arg.items) # 4

\* C10 as claimed: a viewport or scissor sequence whose length is not 4 is
\* refused by the wrapper before anything is handed to mglo.
C10_WrapperRefuses ==
    WrongLength => (last.status # "ok" /\ ~last.called)

\* C10 as amended: the wrapper hands tuple(value) to mglo whatever its length;
\* mglo refuses a length other than 4, and the refused assignment leaves
\* every viewport and scissor as it was.
C10_MgloRefuses ==
    /\ [](WrongLength =>
             /\ last.called
             /\ last.sent = PyTuple(last.arg)
             /\ last.status = "Error")
    /\ [][WrongLength' => mglo' = mglo]_vars

C10_Witness ==
    /\ WrongLength
    /\ last.op = "set_viewport"
    /\ Len(last.arg.items) = 3
    /\ last.called
    /\ last.status = "Error"
    /\ \E f \in FbIds : get_viewport(f).items # FullBox(size(f))

----------------------------------------------------------------------------
(* Claims under SpecClear *)

\* the i-th component of a color, 0.0 where the color has none
Component(color, i) == IF i <= Len(color.items) THEN color.items[i] ELSE 0

Padded(color) == <<Component(color, 1), Component(color, 2),
                   Component(color, 3), Component(color, 4)>>

ClearWithColor == last.op = "clear" /\ IsSeq(last.arg.color)

\* C5: clear(color=c) hands mglo what clear(c1, c2, c3, c4) does, a missing
\* component being 0.0, and clears the same region with the same values.
C5_ColorAsPositional ==
    ClearWithColor =>
       LET c == last.arg.color
           same == clear_args(Component(c, 1), Component(c, 2), Component(c, 3),
                              Component(c, 4), last.arg.depth, last.arg.viewport, None)
       IN /\ last.sent = same
          /\ <<last.sent.red, last.sent.green, last.sent.blue, last.sent.alpha>> = Padded(c)
          /\ last.status = mglo_clear(mglo[last.fb], same).status
          /\ last.effect = mglo_clear(mglo[last.fb], same).effect

C5_Witness ==
    /\ ClearWithColor
    /\ Len(last.arg.color.items) = 3
    /\ last.arg.color.items[1] # 0
    /\ last.arg.red # last.arg.color.items[1]
    /\ last.status = "ok"
    /\ last.effect.rgba = last.arg.color.items \o <<0>>

\* C6: clear(viewport=(w, h)) clears what clear(viewport=(0, 0, w, h)) does,
\* the box (0, 0, w, h); a 4-item viewport is the region cleared; without a
\* viewport the region is the framebuffer's scissor box.
C6_ClearViewport ==
    last.op = "clear" =>
       LET v == last.arg.viewport
           a == last.arg
       IN /\ (IsSeq(v) /\ Len(v.items) = 2) =>
                LET box == <<0, 0, v.items[1], v.items[2]>>
                    same == clear_args(a.red, a.green, a.blue, a.alpha, a.depth,
                                       [kind |-> "tuple", items |-> box], a.color)
                IN /\ last.status = "ok"
                   /\ last.effect.region = box
                   /\ last.effect = mglo_clear(mglo[last.fb], same).effect
          /\ (IsSeq(v) /\ Len(v.items) = 4) =>
                (last.status = "ok" /\ last.effect.region = v.items)
          /\ (v.kind = "None") =>
                (last.status = "ok" /\ last.effect.region = get_scissor(last.fb).items)

C6_Witness ==
    /\ last.op = "clear"
    /\ last.arg.viewport.kind = "list"
    /\ Len(last.arg.viewport.items) = 2
    /\ last.status = "ok"
    /\ last.effect.region = <<0, 0>> \o last.arg.viewport.items
    /\ get_scissor(last.fb).items # FullBox(size(last.fb))

\* channel values and a color given together, the color saying otherwise
Conflict ==
    /\ ClearWithColor
    /\ <<last.arg.red, last.arg.green, last.arg.blue, last.arg.alpha>> # <<0, 0, 0, 0>>
    /\ <<last.arg.red, last.arg.green, last.arg.blue, last.arg.alpha>> # Padded(last.arg.color)

\* C7 as claimed: clear with conflicting channel values and color fails and
\* hands nothing to mglo.
C7_ConflictFails ==
    Conflict => (last.status # "ok" /\ ~last.called)

\* C7 as amended: clear with conflicting channel values and color does not
\* fail on the conflict: the color's components, padded with 0.0, replace the
\* channel values, and the clear is handed to mglo with them.
C7_ColorOverrides ==
    Conflict =>
       /\ last.called
       /\ <<last.sent.red, last.sent.green, last.sent.blue, last.sent.alpha>>
             = Padded(last.arg.color)
       /\ last.status = mglo_clear(mglo[last.fb], last.sent).status
       /\ (last.arg.viewport.kind = "None") =>
             (last.status = "ok" /\ last.effect.rgba = Padded(last.arg.color))

C7_Witness ==
    /\ Conflict
    /\ last.arg.red # 0
    /\ last.arg.color.items = <<0, 1, 2>>
    /\ last.status = "ok"
    /\ last.effect.rgba = <<0, 1, 2, 0>>

====
